---- MODULE Spec2Model ----
(***************************************************************************)
(* StudyMate: the document store, the per-document semantic search engine  *)
(* and the question-answering session of src/src/qa_system.py,             *)
(* src/src/semantic_search.py and src/src/llm_integration.py, and the      *)
(* chunker of src/src/pdf_processor.py.                                    *)
(*                                                                         *)
(* The specifications share the variables:                                 *)
(*   Spec         the session (upload / select / ask / search / summary /  *)
(*                clear) over the DocumentStore;                           *)
(*   SearchSpec   one SemanticSearchEngine, built from a bounded but       *)
(*                otherwise arbitrary chunk list and searched with every   *)
(*                query, k and score_threshold of the bounds;              *)
(*   RebuildSpec  one engine built twice from the same chunks;             *)
(*   ContextSpec  get_context_window on a built engine;                    *)
(*   PersistSpec  save_index followed by load_index;                       *)
(*   PromptSpec   the prompt and the sources of generate_answer;           *)
(*   ChunkSpec    chunk_text as a function of the text;                    *)
(*   LoopSpec     the loop of chunk_text, one iteration per step;          *)
(*   WorkersSpec  two threads inside upload_document;                      *)
(*   HistorySpec  get_conversation_history.                                *)
(***************************************************************************)
EXTENDS Integers, Sequences, FiniteSets, TLC

(***************************************************************************)
(* Bounds                                                                  *)
(***************************************************************************)
MaxName    == 2   \* file names are 1..MaxName
MaxContent == 2   \* file contents (byte strings) are 1..MaxContent
HashSpace  == 2   \* number of distinct 8-hex-digit md5 prefixes modelled
MaxChunks  == 3   \* longest chunk list handed to build_index in SearchSpec
MaxText    == 3   \* texts (chunk texts, queries) are 0..MaxText
MaxK       == 3   \* k ranges over 1..MaxK
MaxClock   == 2   \* number of answered questions in one behaviour
MaxDocs    == 2   \* number of documents the store may hold
MaxHits    == 2   \* longest hit list handed to get_context_window
MaxWindow  == 2   \* window_size ranges over 0..MaxWindow
MaxContext == 6   \* longest list of retrieved chunks handed to the generator
MaxWorkers == 2   \* threads inside upload_document at the same time
MaxLoopText == 6  \* longest text of the step-by-step chunk_text loop
MaxHistory == 4   \* longest history handed to get_conversation_history
MaxLimit   == 4   \* limit ranges over 0..MaxLimit

(***************************************************************************)
(* Program constants                                                       *)
(***************************************************************************)
DefaultScoreThreshold == 30   \* score_threshold: float = 0.3, in hundredths
DefaultK              == 5    \* k: int = 5 of DocumentStore.search_document
FollowUpLimit         == 3    \* questions[:3]
ChunkSize             == 500  \* PDFProcessor.chunk_size
ContextLimit          == 5    \* context_chunks[:5]
SourceLimit           == 3    \* context_chunks[:3]
PreviewLimit          == 100  \* chunk['text'][:100]
Overlap               == 50   \* PDFProcessor.overlap
MinFollowUpLen        == 10   \* len(question) > 10

Names      == 1..MaxName
Contents   == 1..MaxContent
Texts      == 0..MaxText
Ks         == (1..MaxK) \cup {DefaultK}
Thresholds == {30, 31, 90}    \* score thresholds tried, in hundredths

NoDocument == <<>>            \* Python None for a document id

Min(a, b) == IF a < b THEN a ELSE b
Max(a, b) == IF a > b THEN a ELSE b
Abs(a)    == IF a < 0 THEN 0 - a ELSE a

(***************************************************************************)
(* Embedder and similarity.  The SentenceTransformer is a black box that   *)
(* maps a text to a vector; encode_texts L2-normalises it, so a vector is  *)
(* a direction and the inner product of two of them is their cosine.       *)
(* Directions are 0..4, the cosine is given in hundredths by the distance  *)
(* between the two directions.                                             *)
(***************************************************************************)
CosineTable   == <<100, 90, 30, 20, -10>>
NumDirections == Len(CosineTable)

ModelEncode(text) == (2 * text + 1) % NumDirections

encode_texts(texts) == [i \in 1..Len(texts) |-> ModelEncode(texts[i])]

InnerProduct(u, v) == CosineTable[Abs(u - v) + 1]

(***************************************************************************)
(* Chunk records.  A chunk list handed to build_index has ids 0..n-1 in    *)
(* list order (PDFProcessor.chunk_text numbers them so).                   *)
(***************************************************************************)
MakeChunks(texts) == [i \in 1..Len(texts) |-> [id |-> i - 1, text |-> texts[i]]]

SeqsUpTo(S, n) == UNION {[1..m -> S] : m \in 0..n}

(***************************************************************************)
(* PDFProcessor.chunk_text.  A text is its length and the characters that  *)
(* matter to chunk_text: marks maps the positions (0-based) that hold a    *)
(* sentence terminator or a blank to that character; every other position  *)
(* holds a letter.                                                         *)
(***************************************************************************)
Terminators == {".", "!", "?"}
Blank       == " "

CharAt(text, p) == IF p \in DOMAIN text.marks THEN text.marks[p] ELSE "a"

MaxOf(S) == CHOOSE x \in S : \A y \in S : y <= x

\* str.rfind(ch, start, end)
rfind(text, ch, start, end) ==
    LET S == {p \in DOMAIN text.marks :
                 text.marks[p] = ch /\ start <= p /\ p < end}
    IN  IF S = {} THEN -1 ELSE MaxOf(S)

\* blanks that str.strip() removes from the front of text[p:end]
RECURSIVE LeadBlanks(_, _, _)
LeadBlanks(text, p, end) ==
    IF p < end /\ CharAt(text, p) = Blank
    THEN 1 + LeadBlanks(text, p + 1, end) ELSE 0

\* blanks that str.strip() removes from the back of text[start:p]
RECURSIVE TrailBlanks(_, _, _)
TrailBlanks(text, start, p) ==
    IF start < p /\ CharAt(text, p - 1) = Blank
    THEN 1 + TrailBlanks(text, start, p - 1) ELSE 0

\* text[start:end].strip(), as the slice <<from, to>> of the text it is
Strip(text, start, end) ==
    LET lead == LeadBlanks(text, start, end)
    IN  IF lead = end - start THEN <<start, start>>
        ELSE <<start + lead, end - TrailBlanks(text, start, end)>>

\* the end of the window that starts at start, lines 94-107
WindowEnd(text, start, chunk_size) ==
    LET end == Min(start + chunk_size, text.len)
    IN  IF end < text.len
        THEN LET sentence_end ==
                     Max(Max(rfind(text, ".", start, end),
                             rfind(text, "!", start, end)),
                         rfind(text, "?", start, end))
             IN  IF sentence_end > start + (chunk_size \div 2)
                 THEN sentence_end + 1 ELSE end
        ELSE end

\* a step that forgets the end of the window
NextStart_NoMax(start, end, chunk_size, overlap) ==
    start + chunk_size - overlap

\* line 121: start = max(start + self.chunk_size - self.overlap, end)
NextStart(start, end, chunk_size, overlap) ==
    Max(start + chunk_size - overlap, end)

\* an iteration that numbers the chunk by the windows seen so far
ChunkIteration_CountsWindows(text, start, chunk_id, chunk_size, overlap) ==
    LET end == WindowEnd(text, start, chunk_size)
        chunk_text == Strip(text, start, end)
    IN  [emitted |-> IF chunk_text[1] # chunk_text[2]
                     THEN <<[id |-> chunk_id, text |-> chunk_text,
                             start_pos |-> start, end_pos |-> end,
                             length |-> chunk_text[2] - chunk_text[1]]>>
                     ELSE <<>>,
         chunk_id |-> chunk_id + 1,
         start |-> NextStart(start, end, chunk_size, overlap)]

\* one iteration of the while loop, lines 94-121: the chunk it appends (if
\* any) and the values of chunk_id and start it leaves
ChunkIteration(text, start, chunk_id, chunk_size, overlap) ==
    LET end == WindowEnd(text, start, chunk_size)
        chunk_text == Strip(text, start, end)
    IN  [emitted |-> IF chunk_text[1] # chunk_text[2]
                     THEN <<[id |-> chunk_id, text |-> chunk_text,
                             start_pos |-> start, end_pos |-> end,
                             length |-> chunk_text[2] - chunk_text[1]]>>
                     ELSE <<>>,
         chunk_id |-> IF chunk_text[1] # chunk_text[2]
                      THEN chunk_id + 1 ELSE chunk_id,
         start |-> NextStart(start, end, chunk_size, overlap)]

\* a loop that appends the chunk without testing that it is non-empty
RECURSIVE ChunkLoop_KeepsEmpty(_, _, _)
ChunkLoop_KeepsEmpty(text, start, chunk_id) ==
    IF ~(start < text.len) THEN <<>>
    ELSE LET end == WindowEnd(text, start, ChunkSize)
             chunk_text == Strip(text, start, end)
             next == NextStart(start, end, ChunkSize, Overlap)
         IN  <<[id |-> chunk_id, text |-> chunk_text,
                start_pos |-> start, end_pos |-> end,
                length |-> chunk_text[2] - chunk_text[1]]>>
             \o ChunkLoop_KeepsEmpty(text, next, chunk_id + 1)

\* the while loop of chunk_text, lines 93-121
RECURSIVE ChunkLoop(_, _, _)
ChunkLoop(text, start, chunk_id) ==
    IF ~(start < text.len) THEN <<>>
    ELSE LET it == ChunkIteration(text, start, chunk_id, ChunkSize, Overlap)
         IN  it.emitted \o ChunkLoop(text, it.start, it.chunk_id)

chunk_text(text) == ChunkLoop(text, 0, 0)

(***************************************************************************)
(* SemanticSearchEngine                                                    *)
(*   vectors     the rows of the FAISS IndexFlatIP (self.index)            *)
(*   chunks      self.chunks                                               *)
(*   embeddings  self.embeddings                                           *)
(***************************************************************************)
NewEngine == [vectors |-> <<>>, chunks |-> <<>>, embeddings |-> <<>>]

ntotal(e) == Len(e.vectors)

\* encode_texts raises when the embedder does, and for an empty list of
\* texts: the encoder then returns an array of shape (0,), which
\* faiss.normalize_L2 cannot take (it reads x.shape[1]).
EncodeRaises(texts, embedder_ok) == ~embedder_ok \/ Len(texts) = 0

\* an index build that adds all embeddings but the last to the index
build_index_DropsLast(e, chunks) ==
    LET emb == encode_texts([i \in 1..Len(chunks) |-> chunks[i].text])
    IN  [vectors |-> e.vectors \o SubSeq(emb, 1, Len(emb) - 1),
         chunks |-> chunks, embeddings |-> emb]

\* build_index, when encode_texts returned: index.add appends the new rows
\* to the rows already there; chunks and embeddings are replaced.
build_index(e, chunks) ==
    LET emb == encode_texts([i \in 1..Len(chunks) |-> chunks[i].text])
    IN  [vectors |-> e.vectors \o emb, chunks |-> chunks, embeddings |-> emb]

(***************************************************************************)
(* faiss IndexFlatIP.search(q, k): k (score, index) pairs, the best        *)
(* min(k, ntotal) rows by descending inner product, then padding with      *)
(* index -1.  FAISS fixes no order among rows of equal score, so every     *)
(* order of them is an outcome.  Indices are 0-based as in the code.       *)
(***************************************************************************)
PaddingScore == (0 - 100) - 1     \* below every cosine
Padding      == [score |-> PaddingScore, idx |-> -1]

IsTopOrdering(vectors, q, p) ==
    /\ \A i, j \in DOMAIN p : i # j => p[i] # p[j]
    /\ \A i, j \in DOMAIN p :
          i < j => InnerProduct(q, vectors[p[i]]) >= InnerProduct(q, vectors[p[j]])
    /\ \A x \in DOMAIN vectors :
          (\A i \in DOMAIN p : p[i] # x)
             => \A i \in DOMAIN p :
                  InnerProduct(q, vectors[x]) <= InnerProduct(q, vectors[p[i]])

IndexSearch(vectors, q, k) ==
    LET m == Min(k, Len(vectors))
    IN  { [i \in 1..k |->
             IF i <= m
             THEN [score |-> InnerProduct(q, vectors[p[i]]), idx |-> p[i] - 1]
             ELSE Padding]
          : p \in {pp \in [1..m -> DOMAIN vectors] : IsTopOrdering(vectors, q, pp)} }

(***************************************************************************)
(* SemanticSearchEngine.search.  embedded: encode_texts([query]) returned; *)
(* raw: what index.search returned.  Any exception gives [].               *)
(***************************************************************************)
\* the loop with "score > score_threshold" in place of ">="
RECURSIVE CollectResultsStrict(_, _, _, _)
CollectResultsStrict(chunks, raw, score_threshold, i) ==
    IF i > Len(raw) THEN <<>>
    ELSE IF raw[i].idx # -1 /\ raw[i].score > score_threshold
         THEN <<[similarity_score |-> raw[i].score, rank |-> i]
                  @@ chunks[raw[i].idx + 1]>>
              \o CollectResultsStrict(chunks, raw, score_threshold, i + 1)
         ELSE CollectResultsStrict(chunks, raw, score_threshold, i + 1)

\* the loop with the 0-based enumerate index as the rank
RECURSIVE CollectResults_ZeroBased(_, _, _, _)
CollectResults_ZeroBased(chunks, raw, score_threshold, i) ==
    IF i > Len(raw) THEN <<>>
    ELSE IF raw[i].idx # -1 /\ raw[i].score >= score_threshold
         THEN <<[similarity_score |-> raw[i].score, rank |-> i - 1]
                  @@ chunks[raw[i].idx + 1]>>
              \o CollectResults_ZeroBased(chunks, raw, score_threshold, i + 1)
         ELSE CollectResults_ZeroBased(chunks, raw, score_threshold, i + 1)

\* lines 129-135: i is the position in the raw list, from 1 here, so that
\* rank = i is the code's rank = i + 1
RECURSIVE CollectResults(_, _, _, _)
CollectResults(chunks, raw, score_threshold, i) ==
    IF i > Len(raw) THEN <<>>
    ELSE IF raw[i].idx # -1 /\ raw[i].score >= score_threshold
         THEN <<[similarity_score |-> raw[i].score, rank |-> i]
                  @@ chunks[raw[i].idx + 1]>>
              \o CollectResults(chunks, raw, score_threshold, i + 1)
         ELSE CollectResults(chunks, raw, score_threshold, i + 1)

\* self.chunks[idx] raises IndexError for a row that has no chunk
RaisesIndexError(chunks, raw, score_threshold) ==
    \E i \in DOMAIN raw :
        /\ raw[i].idx # -1 /\ raw[i].score >= score_threshold
        /\ raw[i].idx + 1 > Len(chunks)

search(e, embedded, raw, score_threshold) ==
    IF ntotal(e) = 0 THEN <<>>
    ELSE IF ~embedded THEN <<>>
    ELSE IF RaisesIndexError(e.chunks, raw, score_threshold) THEN <<>>
    ELSE CollectResults(e.chunks, raw, score_threshold, 1)

(***************************************************************************)
(* SemanticSearchEngine.get_context_window(chunks, window_size)            *)
(***************************************************************************)
RECURSIVE SortedIds(_)
SortedIds(S) ==
    IF S = {} THEN <<>>
    ELSE LET m == CHOOSE x \in S : \A y \in S : x <= y
         IN  <<m>> \o SortedIds(S \ {m})

\* range(...) with the upper end one short
WindowRange_OneShort(n, chunk_id, window_size) ==
    Max(0, chunk_id - window_size) .. (Min(n, chunk_id + window_size) - 1)

\* range(max(0, chunk_id - window_size),
\*       min(len(self.chunks), chunk_id + window_size + 1))
WindowRange(n, chunk_id, window_size) ==
    Max(0, chunk_id - window_size) .. (Min(n, chunk_id + window_size + 1) - 1)

get_context_window(e, chunks, window_size) ==
    IF chunks = <<>> THEN <<>>
    ELSE LET chunk_ids == {chunks[i].id : i \in DOMAIN chunks}
             expanded_ids ==
                 UNION {{c} \cup WindowRange(Len(e.chunks), c, window_size)
                        : c \in chunk_ids}
             sorted == SortedIds(expanded_ids)
         IN  [i \in DOMAIN sorted |->
                 [is_context |-> sorted[i] \notin chunk_ids]
                     @@ e.chunks[sorted[i] + 1]]

(***************************************************************************)
(* SemanticSearchEngine.save_index / load_index.  The two files written    *)
(* under a path: the FAISS file holds the rows of the index, the pickle    *)
(* holds chunks, model_name, dimension and embeddings.                     *)
(***************************************************************************)
ModelName == "all-MiniLM-L6-v2"

save_index(e) ==
    [faiss |-> [d |-> 384, rows |-> e.vectors],
     pkl |-> [chunks |-> e.chunks, model_name |-> ModelName,
              dimension |-> 384, embeddings |-> e.embeddings]]

\* a load that reads the index file and leaves self.chunks as it was
load_index_KeepsChunks(e, files) ==
    [vectors |-> files.faiss.rows,
     chunks |-> e.chunks,
     embeddings |-> files.pkl.embeddings]

load_index(e, files) ==
    [vectors |-> files.faiss.rows,
     chunks |-> files.pkl.chunks,
     embeddings |-> files.pkl.embeddings]

\* a search that embeds the query before it looks at the index
search_embed_calls_Always(e) == 1

\* number of encode_texts calls of one search: the empty-index return of
\* lines 119-121 precedes the call of line 124
search_embed_calls(e) == IF ntotal(e) = 0 THEN 0 ELSE 1

\* the outcomes of index.search for this engine, query and k
RawOutcomes(e, query, k) == IndexSearch(e.vectors, ModelEncode(query), k)

\* every result sequence search can return for the engine
SearchResults(e, query, k, score_threshold) ==
    {search(e, TRUE, raw, score_threshold) : raw \in RawOutcomes(e, query, k)}

(***************************************************************************)
(* External generator (LLMAnswerGenerator).  What a call gives is a        *)
(* string, NoneStr (Python None) or RaisedStr (the call raised); Falsy is  *)
(* Python's "not s".                                                       *)
(***************************************************************************)
NoneStr   == "<None>"
RaisedStr == "<raised>"
Falsy(s)  == s = NoneStr \/ s = ""

GeneratedText == "generated text"

WatsonOutcomes   == {"text", "empty", "error_status", "timeout", "exception"}
FallbackOutcomes == {"text", "empty", "exception", "unavailable"}
GenOutcomes(watson) == IF watson THEN WatsonOutcomes ELSE FallbackOutcomes

\* the outcomes in which the generator failed to produce output
GenFailures == {"error_status", "timeout", "exception", "unavailable"}

\* _call_watson_api: the stripped text on status 200; None on any other
\* status and on a timeout or any other exception (caught there)
call_watson_api(outcome) ==
    CASE outcome = "text"  -> GeneratedText
      [] outcome = "empty" -> ""
      [] OTHER             -> NoneStr

UnavailableApology ==
    "I apologize, but the AI model is currently unavailable. Please try again later."
TroubleApology ==
    "I apologize, but I'm having trouble generating a response right now."
NeedContext == "I need more context to provide a helpful answer."

\* _generate_with_fallback
generate_with_fallback(outcome) ==
    CASE outcome = "unavailable" -> UnavailableApology
      [] outcome = "text"        -> GeneratedText
      [] outcome = "empty"       -> NeedContext
      [] OTHER                   -> TroubleApology

Generate(watson, outcome) ==
    IF watson THEN call_watson_api(outcome) ELSE generate_with_fallback(outcome)

UnableApology ==
    "I apologize, but I'm unable to generate an answer at this time. Please try rephrasing your question or check your connection."
ErrorAnswer ==
    "I encountered an error while generating the answer. Please try again."

Apologies == {UnableApology, UnavailableApology, TroubleApology, ErrorAnswer}

\* generate_answer without the "if not answer" replacement
generate_answer_NoApology(watson, outcome) ==
    LET answer == Generate(watson, outcome)
    IN  IF answer = RaisedStr THEN ErrorAnswer ELSE answer

\* generate_answer: the 'answer' of the response it returns
generate_answer(watson, outcome) ==
    LET answer == Generate(watson, outcome)
    IN  IF answer = RaisedStr THEN ErrorAnswer
        ELSE IF Falsy(answer) THEN UnableApology
        ELSE answer

(***************************************************************************)
(* The prompt and the sources of generate_answer.  Here a text is          *)
(* [tag, len, dots]: the first len characters of the text named tag,       *)
(* followed by dots more characters ('...').                               *)
(***************************************************************************)
StrLen(s) == s.len + s.dots

\* chunk['text'][:100] + '...' if len(chunk['text']) > 100 else chunk['text']
text_preview(text) ==
    IF StrLen(text) > PreviewLimit
    THEN [tag |-> text.tag, len |-> PreviewLimit, dots |-> 3]
    ELSE text

\* a prompt built from all the chunks
create_context_prompt_NoLimit(question, context_chunks) ==
    [question |-> question,
     contexts |-> [i \in 1..Len(context_chunks) |->
                     [label |-> i, text |-> context_chunks[i].text]]]

\* create_context_prompt: the question and the "[Context i]" blocks
create_context_prompt(question, context_chunks) ==
    [question |-> question,
     contexts |-> [i \in 1..Min(ContextLimit, Len(context_chunks)) |->
                     [label |-> i, text |-> context_chunks[i].text]]]

\* sources built from all the chunks
answer_sources_NoLimit(context_chunks) ==
    [i \in 1..Len(context_chunks) |->
        [chunk_id |-> context_chunks[i].id,
         similarity_score |-> context_chunks[i].similarity_score,
         text_preview |-> text_preview(context_chunks[i].text)]]

\* response['sources'] of generate_answer, lines 233-239
answer_sources(context_chunks) ==
    [i \in 1..Min(SourceLimit, Len(context_chunks)) |->
        [chunk_id |-> context_chunks[i].id,
         similarity_score |-> context_chunks[i].similarity_score,
         text_preview |-> text_preview(context_chunks[i].text)]]

(***************************************************************************)
(* generate_follow_up_questions.  The generated response is a list of      *)
(* lines; a line is [listed, len]: whether it starts with "1.", "2.",      *)
(* "3." or "-", and the length of the question left after clean-up.        *)
(***************************************************************************)
FollowUpResponse ==
    <<[listed |-> TRUE,  len |-> 40], [listed |-> FALSE, len |-> 40],
      [listed |-> TRUE,  len |-> 10], [listed |-> TRUE,  len |-> 25],
      [listed |-> TRUE,  len |-> 30], [listed |-> TRUE,  len |-> 35]>>

FallbackFollowUps ==
    <<[listed |-> FALSE, len |-> 44], [listed |-> FALSE, len |-> 44],
      [listed |-> FALSE, len |-> 46]>>

Take(s, n) == SubSeq(s, 1, Min(n, Len(s)))

KeepLine(line) == line.listed /\ line.len > MinFollowUpLen

generate_follow_up_questions(watson, outcome) ==
    LET response == Generate(watson, outcome)
    IN  IF response = RaisedStr THEN <<>>
        ELSE IF ~Falsy(response)
        THEN IF response = GeneratedText
             THEN Take(SelectSeq(FollowUpResponse, KeepLine), FollowUpLimit)
             ELSE <<>>      \* a canned one-line sentence: no listed line
        ELSE FallbackFollowUps

(***************************************************************************)
(* Files and document ids.  A file is a name and its bytes;                *)
(* _generate_document_id gives "<basename>_<first 8 hex digits of md5>".   *)
(* The md5 prefix is a many-to-one function of the bytes.                  *)
(***************************************************************************)
Md5Prefix(content) == content % HashSpace

generate_document_id(name, content) == <<name, Md5Prefix(content)>>

\* the id when the file cannot be read: "doc_<timestamp>", name 0 is "doc"
FallbackDocumentId(now) == <<0, now>>

DocIds == Names \X (0..(HashSpace - 1))

(***************************************************************************)
(* PDFProcessor.process_pdf: the chunks of a file's text.  Content 1 is a  *)
(* PDF with no text, content c > 1 has c chunks of different texts, none   *)
(* of them relevant to question 2.  The metadata of a                      *)
(* document (title, author, ...) is carried along by the code and decides  *)
(* nothing; it is left out of the document record.                         *)
(***************************************************************************)
process_pdf(content) ==
    MakeChunks([i \in 1..(IF content = 1 THEN 0 ELSE content) |-> 3 * i - 2])

(***************************************************************************)
(* State                                                                   *)
(***************************************************************************)
VARIABLES
    documents,             \* DocumentStore.documents: id -> [chunks]
    search_engines,        \* DocumentStore.search_engines: id -> engine
    current_document,      \* StudyMateQASystem.current_document
    conversation_history,  \* StudyMateQASystem.conversation_history
    use_watson,            \* LLMAnswerGenerator.use_watson
    clock,                 \* datetime.now(), one tick per answered question
    result,                \* what the last operation returned
    input,                 \* SearchSpec: the chunk list, query, k, threshold
    engine,                \* SearchSpec: the engine under test
    search_out,            \* SearchSpec: what the last search returned
    call,                  \* the last direct call of a helper and its return
    workers                \* the threads inside upload_document, if any

sessionVars == <<documents, search_engines, current_document,
                 conversation_history, use_watson, clock, result>>
searchVars  == <<input, engine, search_out, call, workers>>
vars        == <<documents, search_engines, current_document,
                 conversation_history, use_watson, clock, result,
                 input, engine, search_out, call, workers>>

\* A returned result, with the call it answers (request) and, for the
\* statements about what a call leaves alone, the active document and the
\* history length at the time of the call (before).  error is str(e) of the
\* exception a failed call caught; retrieved is the number of chunks the
\* retrieval of an ask returned and gen the outcomes of the generator calls
\* it made, in call order.  For search_documents, searched is
\* total_documents_searched and retrieved is total_matches; for
\* get_document_summary, answer is the summary.  escaped says that the call
\* ended by an exception instead of returning the result.
NoResult ==
    [op |-> "none", request |-> <<>>,
     before |-> [current_document |-> NoDocument, history_len |-> 0],
     success |-> FALSE, message |-> "", document_id |-> NoDocument,
     error |-> "", is_new |-> FALSE, answer |-> "", follow_ups |-> 0,
     retrieved |-> 0, gen |-> <<>>, searched |-> 0, escaped |-> FALSE]

Before ==
    [current_document |-> current_document,
     history_len |-> Len(conversation_history)]

Returned(op, request) ==
    [NoResult EXCEPT !.op = op, !.request = request, !.before = Before]

NoInput     == [chunks |-> <<>>, query |-> 0, k |-> 1, score_threshold |-> 0]
\* raised: encode_texts([query]) raised inside search
NoSearchOut == [done |-> FALSE, embed_calls |-> 0, raised |-> FALSE,
                results |-> <<>>]

NoCall == [fn |-> "none"]

NoWorkers == <<>>

SessionInit ==
    /\ documents = <<>>
    /\ search_engines = <<>>
    /\ current_document = NoDocument
    /\ conversation_history = <<>>
    /\ use_watson \in BOOLEAN
    /\ clock = 0
    /\ result = NoResult

Init ==
    /\ SessionInit
    /\ input = NoInput
    /\ engine = NewEngine
    /\ search_out = NoSearchOut
    /\ call = NoCall
    /\ workers = NoWorkers

(***************************************************************************)
(* DocumentStore                                                           *)
(***************************************************************************)
\* get_document_list: the ids listed
get_document_list == DOMAIN documents

AddStages == {"ok", "embed_error", "save_error"}

\* add_document(doc_id, chunks); stage says how far it gets:
\* "embed_error" raises in build_index, "save_error" raises in save_index
\* (the index files on disk are not part of the state), "ok" returns.
add_document(doc_id, chunks, stage) ==
    IF EncodeRaises(chunks, stage # "embed_error")
    THEN UNCHANGED <<documents, search_engines>>
    ELSE /\ documents' = (doc_id :> [chunks |-> chunks])
                             @@ documents
         /\ search_engines' = (doc_id :> build_index(NewEngine, chunks))
                                  @@ search_engines

\* how add_document ends: it returns ("ok") or raises what stopped it
AddOutcome(chunks, stage) ==
    IF EncodeRaises(chunks, stage # "embed_error") THEN "embed_error" ELSE stage

(***************************************************************************)
(* StudyMateQASystem.upload_document(pdf_path)                             *)
(*   outcome: "unreadable" the file cannot be opened; "extract_error"      *)
(*   process_pdf raises; otherwise the stage of add_document.              *)
(***************************************************************************)
UploadOutcomes == {"unreadable", "extract_error"} \cup AddStages

\* an except block that logs and raises again, as add_document's does
UploadFailed_Reraises(name, content, error) ==
    [Returned("upload", <<name, content>>) EXCEPT
        !.error = error, !.escaped = TRUE]

\* the except block of upload_document, lines 121-127
UploadFailed(name, content, error) ==
    [Returned("upload", <<name, content>>) EXCEPT
        !.error = error, !.message = "Failed to process document"]

\* an upload that selects the document and empties the history before it
\* hands the chunks to add_document
upload_document_SelectsFirst(name, content, outcome) ==
    LET doc_id == IF outcome = "unreadable" THEN FallbackDocumentId(clock)
                  ELSE generate_document_id(name, content)
    IN  IF doc_id \in get_document_list
        THEN /\ current_document' = doc_id
             /\ result' = [Returned("upload", <<name, content>>) EXCEPT
                               !.success = TRUE, !.document_id = doc_id,
                               !.message = "Document already processed"]
             /\ UNCHANGED <<documents, search_engines,
                            conversation_history, use_watson, clock>>
        ELSE IF outcome \in {"unreadable", "extract_error"}
        THEN /\ result' = UploadFailed(name, content, outcome)
             /\ UNCHANGED <<documents, search_engines, current_document,
                            conversation_history, use_watson, clock>>
        ELSE /\ Cardinality(DOMAIN documents) < MaxDocs
             /\ add_document(doc_id, process_pdf(content), outcome)
             /\ current_document' = doc_id
             /\ conversation_history' = <<>>
             /\ result' =
                   IF AddOutcome(process_pdf(content), outcome) = "ok"
                   THEN [Returned("upload", <<name, content>>) EXCEPT
                            !.success = TRUE,
                            !.document_id = doc_id, !.is_new = TRUE,
                            !.message = "Document processed successfully"]
                   ELSE UploadFailed(name, content,
                                     AddOutcome(process_pdf(content), outcome))
             /\ UNCHANGED <<use_watson, clock>>

upload_document(name, content, outcome) ==
    LET doc_id == IF outcome = "unreadable" THEN FallbackDocumentId(clock)
                  ELSE generate_document_id(name, content)
    IN  IF doc_id \in get_document_list
        THEN /\ current_document' = doc_id
             /\ result' = [Returned("upload", <<name, content>>) EXCEPT
                               !.success = TRUE, !.document_id = doc_id,
                               !.message = "Document already processed"]
             /\ UNCHANGED <<documents, search_engines,
                            conversation_history, use_watson, clock>>
        ELSE IF outcome \in {"unreadable", "extract_error"}
        THEN /\ result' = UploadFailed(name, content, outcome)
             /\ UNCHANGED <<documents, search_engines, current_document,
                            conversation_history, use_watson, clock>>
        ELSE /\ Cardinality(DOMAIN documents) < MaxDocs
             /\ add_document(doc_id, process_pdf(content), outcome)
             /\ IF AddOutcome(process_pdf(content), outcome) = "ok"
                THEN /\ current_document' = doc_id
                     /\ conversation_history' = <<>>
                     /\ result' = [Returned("upload", <<name, content>>) EXCEPT
                                     !.success = TRUE,
                                     !.document_id = doc_id, !.is_new = TRUE,
                                     !.message = "Document processed successfully"]
                ELSE /\ result' = UploadFailed(name, content,
                                        AddOutcome(process_pdf(content), outcome))
                     /\ UNCHANGED <<current_document, conversation_history>>
             /\ UNCHANGED <<use_watson, clock>>

(***************************************************************************)
(* clear_conversation_history and select_document                          *)
(***************************************************************************)
\* a reset that also drops the active document
clear_conversation_history_DropsDocument ==
    /\ conversation_history' = <<>>
    /\ current_document' = NoDocument
    /\ result' = [Returned("clear", <<>>) EXCEPT !.success = TRUE]
    /\ UNCHANGED <<documents, search_engines, use_watson, clock>>

clear_conversation_history ==
    /\ conversation_history' = <<>>
    /\ result' = [Returned("clear", <<>>) EXCEPT !.success = TRUE]
    /\ UNCHANGED <<documents, search_engines, current_document,
                   use_watson, clock>>

\* select_document without the call of clear_conversation_history
select_document_KeepsHistory(document_id) ==
    IF document_id \notin get_document_list
    THEN /\ result' = [Returned("select", <<document_id>>) EXCEPT
                           !.message = "Document not found"]
         /\ UNCHANGED <<documents, search_engines, current_document,
                        conversation_history, use_watson, clock>>
    ELSE /\ current_document' = document_id
         /\ result' = [Returned("select", <<document_id>>) EXCEPT
                           !.success = TRUE, !.document_id = document_id,
                           !.message = "Document selected successfully"]
         /\ UNCHANGED <<documents, search_engines, conversation_history,
                        use_watson, clock>>

\* select_document assigning current_document before the lookup
select_document_AssignsFirst(document_id) ==
    IF document_id \notin get_document_list
    THEN /\ current_document' = document_id
         /\ result' = [Returned("select", <<document_id>>) EXCEPT
                           !.message = "Document not found"]
         /\ UNCHANGED <<documents, search_engines, conversation_history,
                        use_watson, clock>>
    ELSE /\ current_document' = document_id
         /\ conversation_history' = <<>>
         /\ result' = [Returned("select", <<document_id>>) EXCEPT
                           !.success = TRUE, !.document_id = document_id,
                           !.message = "Document selected successfully"]
         /\ UNCHANGED <<documents, search_engines, use_watson, clock>>

select_document(document_id) ==
    IF document_id \notin get_document_list
    THEN /\ result' = [Returned("select", <<document_id>>) EXCEPT
                           !.message = "Document not found"]
         /\ UNCHANGED <<documents, search_engines, current_document,
                        conversation_history, use_watson, clock>>
    ELSE /\ current_document' = document_id
         /\ conversation_history' = <<>>
         /\ result' = [Returned("select", <<document_id>>) EXCEPT
                           !.success = TRUE, !.document_id = document_id,
                           !.message = "Document selected successfully"]
         /\ UNCHANGED <<documents, search_engines, use_watson, clock>>

(***************************************************************************)
(* StudyMateQASystem.get_conversation_history(limit), limit >= 0.          *)
(***************************************************************************)
\* Python's s[-limit:]: -0 is 0, so the slice from -0 is the whole list;
\* a start before the beginning is clamped to the beginning
SliceFromMinus(s, limit) ==
    IF limit = 0 THEN s
    ELSE SubSeq(s, Max(Len(s) - limit, 0) + 1, Len(s))

\* lines 309-311
get_conversation_history(history, limit) ==
    IF history # <<>> THEN SliceFromMinus(history, limit) ELSE <<>>

(***************************************************************************)
(* DocumentStore.search_document(doc_id, query, k): the engine's search    *)
(* with the default score_threshold, [] for an unknown id.                 *)
(***************************************************************************)
\* search_document passing no usable score_threshold
search_document_NoThreshold(doc_id, embedded, raw) ==
    IF doc_id \notin DOMAIN search_engines THEN <<>>
    ELSE search(search_engines[doc_id], embedded, raw, PaddingScore)

search_document(doc_id, embedded, raw) ==
    IF doc_id \notin DOMAIN search_engines THEN <<>>
    ELSE search(search_engines[doc_id], embedded, raw, DefaultScoreThreshold)

\* what index.search can return inside search_document
StoreRawOutcomes(doc_id, query, k) ==
    IF doc_id \notin DOMAIN search_engines THEN {<<>>}
    ELSE RawOutcomes(search_engines[doc_id], query, k)

(***************************************************************************)
(* StudyMateQASystem.ask_question(question, document_id, max_context_chunks)*)
(*   embedded, raw: the outcome of the retrieval; g1, g2: the outcomes of  *)
(*   the generator in generate_answer and generate_follow_up_questions;    *)
(*   the result records the number of follow-up questions.                 *)
(***************************************************************************)
Questions == {2, 3}
AskKs     == {1, DefaultK}

\* an append that puts the new entry before the earlier ones
append_entry_Front(history, entry) == <<entry>> \o history

\* self.conversation_history.append({...}), lines 199-204
append_entry(history, entry) == Append(history, entry)

ask_question(question, document_id, max_context_chunks, embedded, raw) ==
    LET doc == IF document_id = NoDocument THEN current_document ELSE document_id
    IN  IF doc = NoDocument
        THEN /\ result' = [Returned("ask", <<question, document_id>>) EXCEPT
                   !.message =
                       "No document selected. Please upload a document first."]
             /\ UNCHANGED <<documents, search_engines, current_document,
                            conversation_history, use_watson, clock>>
        ELSE LET context_chunks == search_document(doc, embedded, raw)
             IN  IF context_chunks = <<>>
                 THEN /\ result' = [Returned("ask", <<question, document_id>>) EXCEPT
                                      !.document_id = doc,
                                      !.message =
                                        "No relevant information found in the document."]
                      /\ UNCHANGED <<documents, search_engines, current_document,
                                     conversation_history, use_watson, clock>>
                 ELSE /\ clock < MaxClock
                      /\ \E g1 \in GenOutcomes(use_watson),
                            g2 \in GenOutcomes(use_watson) :
                            LET answer     == generate_answer(use_watson, g1)
                                follow_ups ==
                                    generate_follow_up_questions(use_watson, g2)
                                asked == [Returned("ask", <<question, document_id>>)
                                            EXCEPT !.document_id = doc,
                                                   !.retrieved = Len(context_chunks)]
                            IN  IF answer = RaisedStr
                                THEN \* the except of ask_question
                                     /\ result' = [asked EXCEPT
                                            !.error = "generator",
                                            !.gen = <<g1>>,
                                            !.message = "Failed to process question"]
                                     /\ UNCHANGED <<conversation_history, clock>>
                                ELSE /\ result' = [asked EXCEPT
                                            !.success = TRUE,
                                            !.answer = answer,
                                            !.follow_ups = Len(follow_ups),
                                            !.gen = <<g1, g2>>]
                                     /\ conversation_history' =
                                           append_entry(conversation_history,
                                                  [question |-> question,
                                                   answer |-> answer,
                                                   timestamp |-> clock,
                                                   document_id |-> doc])
                                     /\ clock' = clock + 1
                      /\ UNCHANGED <<documents, search_engines, current_document,
                                     use_watson>>

(***************************************************************************)
(* StudyMateQASystem.search_documents(query, document_id): embedded and    *)
(* raws give, for each engine searched, whether the query was embedded and *)
(* what index.search returned.  search and search_document raise nothing,  *)
(* so the except block of lines 246-252 is never entered.                  *)
(***************************************************************************)
SearchTargets(document_id) ==
    IF document_id # NoDocument THEN {document_id} ELSE DOMAIN search_engines

RECURSIVE TotalMatches(_, _)
TotalMatches(matches, D) ==
    IF D = {} THEN 0
    ELSE LET d == CHOOSE x \in D : TRUE
         IN  Len(matches[d]) + TotalMatches(matches, D \ {d})

search_documents(query, document_id, embedded, raws) ==
    LET matches == [d \in SearchTargets(document_id) |->
                       search_document(d, embedded[d], raws[d])]
        search_results == {d \in DOMAIN matches : matches[d] # <<>>}
    IN  /\ result' = [Returned("search", <<query, document_id>>) EXCEPT
                          !.success = TRUE,
                          !.searched = Cardinality(search_results),
                          !.retrieved = TotalMatches(matches, search_results)]
        /\ UNCHANGED <<documents, search_engines, current_document,
                       conversation_history, use_watson, clock>>

(***************************************************************************)
(* LLMAnswerGenerator.summarize_document_section and                       *)
(* StudyMateQASystem.get_document_summary(document_id)                     *)
(***************************************************************************)
UnableSummary == "Unable to generate summary at this time."
ErrorSummary  == "Error generating summary."

summarize_document_section(watson, outcome) ==
    LET summary == Generate(watson, outcome)
    IN  IF summary = RaisedStr THEN ErrorSummary
        ELSE IF Falsy(summary) THEN UnableSummary
        ELSE summary

get_document_summary(document_id, outcome) ==
    LET doc == IF document_id = NoDocument THEN current_document ELSE document_id
        asked == Returned("summary", <<document_id>>)
    IN  /\ result' =
              IF doc = NoDocument
              THEN [asked EXCEPT !.message = "No document selected"]
              ELSE IF doc \notin get_document_list
              THEN [asked EXCEPT !.message = "Document not found"]
              ELSE [asked EXCEPT
                       !.success = TRUE, !.document_id = doc,
                       !.answer = summarize_document_section(use_watson, outcome),
                       !.gen = <<outcome>>]
        /\ UNCHANGED <<documents, search_engines, current_document,
                       conversation_history, use_watson, clock>>

(***************************************************************************)
(* The session                                                             *)
(***************************************************************************)
Upload ==
    /\ \E name \in Names, content \in Contents, outcome \in UploadOutcomes :
            upload_document(name, content, outcome)
    /\ UNCHANGED searchVars

Select ==
    /\ \E document_id \in DocIds : select_document(document_id)
    /\ UNCHANGED searchVars

Clear ==
    /\ clear_conversation_history
    /\ UNCHANGED searchVars

Ask ==
    /\ \E question \in Questions, document_id \in {NoDocument} \cup DocIds,
          k \in AskKs, embedded \in BOOLEAN :
            \E raw \in StoreRawOutcomes(
                          IF document_id = NoDocument THEN current_document
                          ELSE document_id, question, k) :
                ask_question(question, document_id, k, embedded, raw)
    /\ UNCHANGED searchVars

Search ==
    /\ \E query \in Questions, document_id \in {NoDocument} \cup DocIds :
          LET T == SearchTargets(document_id)
              R == UNION {StoreRawOutcomes(d, query, DefaultK) : d \in T}
          IN  \E embedded \in [T -> BOOLEAN] :
                \E raws \in {f \in [T -> R] :
                                \A d \in T :
                                   f[d] \in StoreRawOutcomes(d, query, DefaultK)} :
                   search_documents(query, document_id, embedded, raws)
    /\ UNCHANGED searchVars

Summary ==
    /\ \E document_id \in {NoDocument} \cup DocIds,
          outcome \in GenOutcomes(use_watson) :
            get_document_summary(document_id, outcome)
    /\ UNCHANGED searchVars

Next == Upload \/ Select \/ Clear \/ Ask \/ Search \/ Summary

Spec == Init /\ [][Next]_vars

(***************************************************************************)
(* One engine: build_index on a fresh engine, then search.  The inputs     *)
(* (chunk list, query, k, score_threshold) are drawn in SearchInit.        *)
(***************************************************************************)
SearchInputs ==
    [chunks : {MakeChunks(t) : t \in SeqsUpTo(Texts, MaxChunks)},
     query : Texts, k : Ks, score_threshold : Thresholds]

SearchInit ==
    /\ SessionInit
    /\ use_watson = TRUE
    /\ input \in SearchInputs
    /\ engine = NewEngine
    /\ search_out = NoSearchOut
    /\ call = NoCall
    /\ workers = NoWorkers

\* DocumentStore.add_document lines 272-273: a fresh engine, built once
EngineBuild ==
    /\ engine = NewEngine
    /\ ~search_out.done
    /\ \E embedder_ok \in BOOLEAN :
          engine' = IF EncodeRaises(input.chunks, embedder_ok) THEN engine
                    ELSE build_index(engine, input.chunks)
    /\ UNCHANGED <<input, search_out, call, workers>>
    /\ UNCHANGED sessionVars

EngineSearch ==
    /\ \E embedded \in BOOLEAN, raw \in RawOutcomes(engine, input.query, input.k) :
          search_out' = [done |-> TRUE,
                         embed_calls |-> search_embed_calls(engine),
                         raised |-> search_embed_calls(engine) > 0 /\ ~embedded,
                         results |-> search(engine, embedded, raw,
                                            input.score_threshold)]
    /\ UNCHANGED <<input, engine, call, workers>>
    /\ UNCHANGED sessionVars

SearchNext == EngineBuild \/ EngineSearch

SearchSpec == SearchInit /\ [][SearchNext]_vars

(***************************************************************************)
(* One engine built twice: build_index on a fresh engine, then build_index *)
(* again with the same chunks.  call keeps the engine as it was after the  *)
(* first build.                                                            *)
(***************************************************************************)
EngineRebuild ==
    /\ engine # NewEngine
    /\ call = NoCall
    /\ \E embedder_ok \in BOOLEAN :
          engine' = IF EncodeRaises(input.chunks, embedder_ok) THEN engine
                    ELSE build_index(engine, input.chunks)
    /\ call' = [fn |-> "build_index", built_once |-> engine]
    /\ UNCHANGED <<input, search_out, workers>>
    /\ UNCHANGED sessionVars

RebuildNext == EngineBuild \/ EngineRebuild

RebuildSpec == SearchInit /\ [][RebuildNext]_vars

(***************************************************************************)
(* One engine: build_index on a fresh engine, then get_context_window on   *)
(* every list of at most MaxHits of its chunks and every window_size up to *)
(* MaxWindow.                                                              *)
(***************************************************************************)
ContextInputs ==
    [chunks : {MakeChunks(t) : t \in SeqsUpTo(Texts, MaxChunks)},
     query : {0}, k : {DefaultK}, score_threshold : {DefaultScoreThreshold}]

ContextInit ==
    /\ SessionInit
    /\ use_watson = TRUE
    /\ input \in ContextInputs
    /\ engine = NewEngine
    /\ search_out = NoSearchOut
    /\ call = NoCall
    /\ workers = NoWorkers

HitLists(chunks) ==
    UNION {[1..m -> {chunks[i] : i \in DOMAIN chunks}] : m \in 0..MaxHits}

ContextExpand ==
    /\ \E hits \in HitLists(engine.chunks), window_size \in 0..MaxWindow :
          call' = [fn |-> "get_context_window",
                   hits |-> hits, window_size |-> window_size,
                   ret |-> get_context_window(engine, hits, window_size)]
    /\ UNCHANGED <<input, engine, search_out, workers>>
    /\ UNCHANGED sessionVars

ContextNext == EngineBuild \/ ContextExpand

ContextSpec == ContextInit /\ [][ContextNext]_vars

(***************************************************************************)
(* One engine saved and loaded: build_index on a fresh engine, save_index, *)
(* then load_index of the saved files by a fresh engine or by one that     *)
(* holds another document.                                                 *)
(***************************************************************************)
EngineSave ==
    /\ call = NoCall
    /\ call' = [fn |-> "save_index", files |-> save_index(engine)]
    /\ UNCHANGED <<input, engine, search_out, workers>>
    /\ UNCHANGED sessionVars

LoadTargets == {NewEngine, build_index(NewEngine, MakeChunks(<<0>>))}

EngineLoad ==
    /\ call.fn = "save_index"
    /\ \E target \in LoadTargets :
          /\ engine' = load_index(target, call.files)
          /\ call' = [fn |-> "load_index", saved |-> engine, target |-> target]
    /\ UNCHANGED <<input, search_out, workers>>
    /\ UNCHANGED sessionVars

\* the engine is built before it is saved
PersistBuild == call = NoCall /\ EngineBuild

PersistNext == PersistBuild \/ EngineSave \/ EngineLoad

PersistSpec == ContextInit /\ [][PersistNext]_vars

(***************************************************************************)
(* The generation step of ask_question (lines 169-196) on every list of at *)
(* most MaxContext retrieved chunks: ranks 1..n, scores descending, chunk  *)
(* ids in or against rank order, texts of the lengths of ChunkLens.        *)
(***************************************************************************)
ChunkLens == {1, 100, 101}

RetrievedLists(max) ==
    UNION { { [i \in 1..n |->
                 [id |-> IF reversed THEN n - i ELSE i - 1,
                  text |-> [tag |-> i, len |-> lens[i], dots |-> 0],
                  similarity_score |-> 100 - i,
                  rank |-> i]]
              : lens \in [1..n -> ChunkLens], reversed \in BOOLEAN }
            : n \in 0..max }

PromptInit ==
    /\ SessionInit
    /\ input \in {[question |-> 2, context_chunks |-> c] : c \in RetrievedLists(MaxContext)}
    /\ engine = NewEngine
    /\ search_out = NoSearchOut
    /\ call = NoCall
    /\ workers = NoWorkers

AskGenerate ==
    /\ call = NoCall
    /\ \E g1 \in GenOutcomes(use_watson) :
          call' = [fn |-> "generate_answer",
                   prompt |-> create_context_prompt(input.question,
                                                    input.context_chunks),
                   answer |-> generate_answer(use_watson, g1),
                   sources |-> answer_sources(input.context_chunks)]
    /\ UNCHANGED <<input, engine, search_out, workers>>
    /\ UNCHANGED sessionVars

PromptNext == AskGenerate

PromptSpec == PromptInit /\ [][PromptNext]_vars

(***************************************************************************)
(* PDFProcessor.chunk_text on the texts of the given lengths whose marks   *)
(* lie on the given positions; input holds the text.                       *)
(***************************************************************************)
TextLengths   == {0, 1, 500, 501, 1200}
MarkPositions == {0, 250, 251, 300, 500, 800}
MarkChars     == Terminators \cup {Blank}

ChunkTexts(lengths) ==
    UNION { UNION { {[len |-> n, marks |-> m] : m \in [P -> MarkChars]}
                    : P \in SUBSET {q \in MarkPositions : q < n} }
            : n \in lengths }

ChunkInit ==
    /\ SessionInit
    /\ use_watson = TRUE
    /\ input \in {[text |-> t] : t \in ChunkTexts(TextLengths)}
    /\ engine = NewEngine
    /\ search_out = NoSearchOut
    /\ call = NoCall
    /\ workers = NoWorkers

ChunkText ==
    /\ call = NoCall
    /\ call' = [fn |-> "chunk_text", ret |-> chunk_text(input.text)]
    /\ UNCHANGED <<input, engine, search_out, workers>>
    /\ UNCHANGED sessionVars

ChunkNext == ChunkText

ChunkSpec == ChunkInit /\ [][ChunkNext]_vars

(***************************************************************************)
(* The while loop of chunk_text, one iteration per step, for every         *)
(* configuration of LoopSizes x LoopOverlaps (overlap >= chunk_size        *)
(* included) and every text of at most MaxLoopText characters, each a      *)
(* letter, a full stop or a blank.  call holds the locals of the call.     *)
(***************************************************************************)
LoopSizes    == {1, 5}
LoopOverlaps == {0, 2, 5, 6}
LoopChars    == {".", Blank}

LoopTexts(max) ==
    UNION { UNION { {[len |-> n, marks |-> m] : m \in [P -> LoopChars]}
                    : P \in SUBSET (0..(n - 1)) }
            : n \in 0..max }

LoopInit ==
    /\ SessionInit
    /\ use_watson = TRUE
    /\ input \in [text : LoopTexts(MaxLoopText),
                  chunk_size : LoopSizes, overlap : LoopOverlaps]
    /\ engine = NewEngine
    /\ search_out = NoSearchOut
    /\ call = NoCall
    /\ workers = NoWorkers

\* lines 88-91: chunks = [], start = 0, chunk_id = 0
LoopEnter ==
    /\ call = NoCall
    /\ call' = [fn |-> "chunk_text_loop", pc |-> "while", start |-> 0,
                chunk_id |-> 0, chunks |-> <<>>, iterations |-> 0]
    /\ UNCHANGED <<input, engine, search_out, workers>>
    /\ UNCHANGED sessionVars

\* lines 93-121: the loop test holds, one iteration
LoopIterate ==
    /\ call.fn = "chunk_text_loop" /\ call.pc = "while"
    /\ call.start < input.text.len
    /\ LET it == ChunkIteration(input.text, call.start, call.chunk_id,
                                input.chunk_size, input.overlap)
       IN  call' = [call EXCEPT !.start = it.start,
                                !.chunk_id = it.chunk_id,
                                !.chunks = call.chunks \o it.emitted,
                                !.iterations = call.iterations + 1]
    /\ UNCHANGED <<input, engine, search_out, workers>>
    /\ UNCHANGED sessionVars

\* lines 93, 123-124: the loop test fails, chunks is returned
LoopReturn ==
    /\ call.fn = "chunk_text_loop" /\ call.pc = "while"
    /\ ~(call.start < input.text.len)
    /\ call' = [call EXCEPT !.pc = "return"]
    /\ UNCHANGED <<input, engine, search_out, workers>>
    /\ UNCHANGED sessionVars

LoopNext == LoopEnter \/ LoopIterate \/ LoopReturn

\* the thread that runs chunk_text keeps running
LoopSpec == LoopInit /\ [][LoopNext]_vars /\ WF_vars(LoopNext)

(***************************************************************************)
(* Two threads inside upload_document of one StudyMateQASystem, for the    *)
(* same file (input holds its name and bytes).  The code takes no lock, so *)
(* the threads interleave between statements.  A worker is its position    *)
(* (pc, the statement it executes next), its locals doc_id, chunks and     *)
(* search_engine, and what it returned.                                    *)
(***************************************************************************)
Workers == 1..MaxWorkers

WorkerStart ==
    [pc |-> "check", doc_id |-> NoDocument, chunks |-> <<>>,
     search_engine |-> NewEngine, built |-> FALSE, result |-> NoResult]

WorkersInit ==
    /\ SessionInit
    /\ use_watson = TRUE
    /\ input \in [name : Names, content : Contents]
    /\ engine = NewEngine
    /\ search_out = NoSearchOut
    /\ call = NoCall
    /\ workers = [w \in Workers |-> WorkerStart]

\* the worker leaves upload_document through its except block
WorkerFails(w, error) ==
    workers' = [workers EXCEPT
                   ![w].pc = "done",
                   ![w].result = UploadFailed(input.name, input.content, error)]

WorkerGoes(w, pc) == workers' = [workers EXCEPT ![w].pc = pc]

\* upload_document lines 75-87: the id and the look-up in the store
WorkerCheck(w) ==
    /\ workers[w].pc = "check"
    /\ LET doc_id == generate_document_id(input.name, input.content)
       IN  IF doc_id \in get_document_list
           THEN /\ current_document' = doc_id
                /\ workers' = [workers EXCEPT
                      ![w].pc = "done", ![w].doc_id = doc_id,
                      ![w].result = [Returned("upload", <<input.name, input.content>>) EXCEPT
                                        !.success = TRUE, !.document_id = doc_id,
                                        !.message = "Document already processed"]]
           ELSE /\ workers' = [workers EXCEPT
                                  ![w].pc = "process", ![w].doc_id = doc_id]
                /\ UNCHANGED current_document
    /\ UNCHANGED <<documents, search_engines, conversation_history,
                   use_watson, clock, result, input, engine, search_out, call>>

\* upload_document lines 90-95: metadata and process_pdf
WorkerProcess(w) ==
    /\ workers[w].pc = "process"
    /\ \E extracted \in BOOLEAN :
          IF extracted
          THEN workers' = [workers EXCEPT
                              ![w].pc = "build",
                              ![w].chunks = process_pdf(input.content)]
          ELSE WorkerFails(w, "extract_error")
    /\ UNCHANGED <<sessionVars, input, engine, search_out, call>>

\* add_document lines 272-273: a fresh engine, build_index
WorkerBuild(w) ==
    /\ workers[w].pc = "build"
    /\ \E embedder_ok \in BOOLEAN :
          IF EncodeRaises(workers[w].chunks, embedder_ok)
          THEN WorkerFails(w, "embed_error")
          ELSE workers' = [workers EXCEPT
                              ![w].pc = "store_document",
                              ![w].built = TRUE,
                              ![w].search_engine =
                                  build_index(NewEngine, workers[w].chunks)]
    /\ UNCHANGED <<sessionVars, input, engine, search_out, call>>

\* add_document lines 276-280: self.documents[doc_id] = {...}
WorkerStoreDocument(w) ==
    /\ workers[w].pc = "store_document"
    /\ documents' = (workers[w].doc_id :> [chunks |-> workers[w].chunks])
                        @@ documents
    /\ WorkerGoes(w, "store_engine")
    /\ UNCHANGED <<search_engines, current_document, conversation_history,
                   use_watson, clock, result, input, engine, search_out, call>>

\* add_document line 282: self.search_engines[doc_id] = search_engine
WorkerStoreEngine(w) ==
    /\ workers[w].pc = "store_engine"
    /\ search_engines' = (workers[w].doc_id :> workers[w].search_engine)
                             @@ search_engines
    /\ WorkerGoes(w, "save")
    /\ UNCHANGED <<documents, current_document, conversation_history,
                   use_watson, clock, result, input, engine, search_out, call>>

\* add_document line 285: save_index
WorkerSave(w) ==
    /\ workers[w].pc = "save"
    /\ \E saved \in BOOLEAN :
          IF saved THEN WorkerGoes(w, "select")
          ELSE WorkerFails(w, "save_error")
    /\ UNCHANGED <<sessionVars, input, engine, search_out, call>>

\* upload_document line 101: self.current_document = doc_id
WorkerSelect(w) ==
    /\ workers[w].pc = "select"
    /\ current_document' = workers[w].doc_id
    /\ WorkerGoes(w, "clear")
    /\ UNCHANGED <<documents, search_engines, conversation_history,
                   use_watson, clock, result, input, engine, search_out, call>>

\* upload_document lines 104-119: the history is emptied, the result returned
WorkerClear(w) ==
    /\ workers[w].pc = "clear"
    /\ conversation_history' = <<>>
    /\ workers' = [workers EXCEPT
          ![w].pc = "done",
          ![w].result = [Returned("upload", <<input.name, input.content>>) EXCEPT
                            !.success = TRUE, !.is_new = TRUE,
                            !.document_id = workers[w].doc_id,
                            !.message = "Document processed successfully"]]
    /\ UNCHANGED <<documents, search_engines, current_document,
                   use_watson, clock, result, input, engine, search_out, call>>

WorkersNext ==
    \E w \in Workers :
        \/ WorkerCheck(w)
        \/ WorkerProcess(w)
        \/ WorkerBuild(w)
        \/ WorkerStoreDocument(w)
        \/ WorkerStoreEngine(w)
        \/ WorkerSave(w)
        \/ WorkerSelect(w)
        \/ WorkerClear(w)

WorkersSpec == WorkersInit /\ [][WorkersNext]_vars

(***************************************************************************)
(* get_conversation_history on every history of at most MaxHistory entries *)
(* about one selected document, with every limit up to MaxLimit.  The      *)
(* entries are those that asks of question 3, the one the document is      *)
(* relevant to, append.                                                    *)
(***************************************************************************)
HistoryDocument == generate_document_id(1, 2)

Histories(max) ==
    UNION { { [i \in 1..n |-> [question |-> 3, answer |-> a[i],
                               timestamp |-> i - 1,
                               document_id |-> HistoryDocument]]
              : a \in [1..n -> {GeneratedText, UnableApology}] }
            : n \in 0..max }

HistoryInit ==
    /\ documents = (HistoryDocument :> [chunks |-> process_pdf(2)])
    /\ search_engines =
          (HistoryDocument :> build_index(NewEngine, process_pdf(2)))
    /\ current_document = HistoryDocument
    /\ conversation_history \in Histories(MaxHistory)
    /\ use_watson = TRUE
    /\ clock = Len(conversation_history)
    /\ result = NoResult
    /\ input = NoInput
    /\ engine = NewEngine
    /\ search_out = NoSearchOut
    /\ call = NoCall
    /\ workers = NoWorkers

GetHistory ==
    /\ \E limit \in 0..MaxLimit :
          call' = [fn |-> "get_conversation_history", limit |-> limit,
                   ret |-> get_conversation_history(conversation_history,
                                                    limit)]
    /\ UNCHANGED <<input, engine, search_out, workers>>
    /\ UNCHANGED sessionVars

HistoryNext == GetHistory

HistorySpec == HistoryInit /\ [][HistoryNext]_vars

(***************************************************************************)
(* Properties                                                              *)
(***************************************************************************)
\* the id upload_document computes for the file of an upload request
RequestedId(r) == generate_document_id(r.request[1], r.request[2])

\* the document an ask request is about, given the active document
AskedDocument(r, current) ==
    IF r.request[2] = NoDocument THEN current ELSE r.request[2]

\* no chunk of doc_id scores at or above the default threshold for question
NoChunkClears(doc_id, question) ==
    \/ doc_id \notin DOMAIN search_engines
    \/ \A i \in DOMAIN search_engines[doc_id].vectors :
          InnerProduct(ModelEncode(question), search_engines[doc_id].vectors[i])
              < DefaultScoreThreshold

\* C1: an upload that returns success right after a successful upload of
\* the same bytes, under whatever file name, reports is_new = false and the
\* document_id of the first upload, and registers no further document.
C1_ReuploadSameId ==
    [][ ( /\ result.op = "upload" /\ result.success
          /\ result'.op = "upload" /\ result'.success
          /\ result'.request[2] = result.request[2] )
        => ( /\ ~result'.is_new
             /\ result'.document_id = result.document_id
             /\ DOMAIN documents' = DOMAIN documents ) ]_vars

\* C2: after an upload or a select that changed the active document from
\* one document id to another, conversation_history is empty.
C2_SwitchEmptiesHistory ==
    ( /\ result.op \in {"upload", "select"}
      /\ result.before.current_document # NoDocument
      /\ current_document # result.before.current_document )
    => conversation_history = <<>>

\* C3: after a successful select_document(id), current_document is id and
\* conversation_history is empty.
C3_SelectEmptiesHistory ==
    (result.op = "select" /\ result.success)
    => /\ current_document = result.request[1]
       /\ result.document_id = result.request[1]
       /\ conversation_history = <<>>

\* C3 witness: a select of the document that was already current, made
\* while the history held an entry, has succeeded.
C3_Witness ==
    /\ result.op = "select" /\ result.success
    /\ result.before.current_document = result.request[1]
    /\ result.before.history_len > 0

\* C4: select_document(id) with an id the store does not list fails with
\* 'Document not found' and leaves current_document and
\* conversation_history as they were.
C4_SelectUnknownChangesNothing ==
    [][ (result'.op = "select" /\ result'.request[1] \notin DOMAIN documents)
        => ( /\ ~result'.success
             /\ result'.message = "Document not found"
             /\ current_document' = current_document
             /\ conversation_history' = conversation_history ) ]_vars

\* C4 witness: a select of an unlisted id has failed while a document was
\* active and the history held an entry.
C4_Witness ==
    /\ result.op = "select" /\ ~result.success
    /\ result.request[1] \notin DOMAIN documents
    /\ current_document # NoDocument
    /\ conversation_history # <<>>

\* C5: an ask with no document selected, or for which no chunk of the
\* document scores at or above the threshold, fails with the matching
\* message; a failed ask has called no generator and leaves
\* conversation_history and current_document as they were.
C5_AskFailsWithoutContext ==
    [][ result'.op = "ask"
        => LET doc == AskedDocument(result', current_document)
           IN  /\ doc = NoDocument
                    => /\ ~result'.success
                       /\ result'.message =
                            "No document selected. Please upload a document first."
               /\ (doc # NoDocument /\ NoChunkClears(doc, result'.request[1]))
                    => /\ ~result'.success
                       /\ result'.message =
                            "No relevant information found in the document."
               /\ ~result'.success
                    => /\ result'.gen = <<>>
                       /\ current_document' = current_document
                       /\ conversation_history' = conversation_history ]_vars

\* C5 witness: an ask about a document whose index holds chunks, none of
\* them relevant, has failed while the history held an entry.
C5_Witness ==
    /\ result.op = "ask" /\ ~result.success
    /\ result.message = "No relevant information found in the document."
    /\ result.document_id \in DOMAIN search_engines
    /\ ntotal(search_engines[result.document_id]) > 0
    /\ conversation_history # <<>>

\* C6: an ask whose retrieval returned at least one chunk returns success
\* with a non-empty answer whatever the two generator calls did; when the
\* answer call failed the answer is an apology string.
C6_GeneratorFailureIsAbsorbed ==
    (result.op = "ask" /\ result.retrieved > 0)
    => /\ result.success
       /\ result.answer # "" /\ result.answer # NoneStr
       /\ result.answer # RaisedStr
       /\ Len(result.gen) = 2
       /\ result.gen[1] \in GenFailures => result.answer \in Apologies

\* C6 witness: an ask has returned after the answer call timed out and the
\* follow-up call raised.
C6_Witness ==
    /\ result.op = "ask" /\ result.retrieved > 0
    /\ result.gen = <<"timeout", "exception">>

\* C8: after an upload that failed inside add_document (index build or
\* save_index), the document id is not listed and has no search engine.
C8_NoPartialRegistration ==
    ( /\ result.op = "upload" /\ ~result.success
      /\ result.error \in {"embed_error", "save_error"} )
    => /\ RequestedId(result) \notin get_document_list
       /\ RequestedId(result) \notin DOMAIN search_engines

\* C7: a successful ask appends exactly one entry {question, answer,
\* timestamp, document_id} at the end of conversation_history, after both
\* generator calls have completed, keeps every earlier entry in place, and
\* leaves the document store and current_document unchanged.
C7_AskAppendsOneEntry ==
    [][ (result'.op = "ask" /\ result'.success)
        => ( /\ conversation_history' =
                   Append(conversation_history,
                          [question |-> result'.request[1],
                           answer |-> result'.answer,
                           timestamp |-> clock,
                           document_id |-> result'.document_id])
             /\ Len(result'.gen) = 2
             /\ result'.document_id = AskedDocument(result', current_document)
             /\ documents' = documents
             /\ search_engines' = search_engines
             /\ current_document' = current_document ) ]_vars

\* C7 witness: an ask has succeeded on a history that already held an
\* entry, so that the history now holds two distinct entries.
C7_Witness ==
    /\ result.op = "ask" /\ result.success
    /\ result.before.history_len > 0
    /\ Len(conversation_history) = 2
    /\ conversation_history[1] # conversation_history[2]

\* the true cosine score of stored chunk i of the engine for the query
ChunkScore(i) == InnerProduct(ModelEncode(input.query), engine.vectors[i])

\* the stored chunks whose score clears the requested threshold
Qualifying ==
    {i \in DOMAIN engine.vectors : ChunkScore(i) >= input.score_threshold}

\* the positions of the stored chunks that a result list returns
ReturnedPositions(results) == {results[j].id + 1 : j \in DOMAIN results}

\* C9: search(query, k, score_threshold) returns at most k results, each a
\* distinct stored chunk carrying its own score, all with score >=
\* score_threshold; when the query was embedded, every stored chunk that is
\* among the k best and scores >= score_threshold is returned.
C9_SearchRespectsKAndThreshold ==
    search_out.done
    => LET results == search_out.results
           got == ReturnedPositions(results)
       IN  /\ Len(results) <= input.k
           /\ \A j \in DOMAIN results :
                 /\ results[j].similarity_score >= input.score_threshold
                 /\ results[j].id + 1 \in DOMAIN engine.vectors
                 /\ results[j].similarity_score = ChunkScore(results[j].id + 1)
                 /\ results[j].text = engine.chunks[results[j].id + 1].text
           /\ Cardinality(got) = Len(results)
           /\ ~search_out.raised
                 => /\ Len(results) = Min(input.k, Cardinality(Qualifying))
                    /\ \A i \in Qualifying \ got : \A h \in got :
                          ChunkScore(i) <= ChunkScore(h)

\* C9 witness: the index holds two chunks scoring 0.9 and 0.2, the search
\* ran with the default threshold 0.3 and the default k = 5, and returned
\* exactly the one chunk that scores 0.9.
C9_Witness ==
    /\ search_out.done /\ ~search_out.raised
    /\ ntotal(engine) = 2
    /\ ChunkScore(1) = 90 /\ ChunkScore(2) = 20
    /\ input.score_threshold = DefaultScoreThreshold
    /\ input.k = DefaultK
    /\ Len(search_out.results) = 1
    /\ search_out.results[1].similarity_score = 90

\* C10: the results of a search are in descending order of score, and
\* results of equal score are in ascending order of chunk id.
C10_DescendingScoreThenId ==
    search_out.done
    => \A a, b \in DOMAIN search_out.results :
          a < b => \/ search_out.results[a].similarity_score
                         > search_out.results[b].similarity_score
                   \/ /\ search_out.results[a].similarity_score
                           = search_out.results[b].similarity_score
                      /\ search_out.results[a].id < search_out.results[b].id

\* C11: a search on an index that holds zero vectors returns the empty
\* sequence as a normal result, for every query and k: nothing was raised
\* inside search and the embedder was not called.
C11_EmptyIndexSearchIsEmpty ==
    (search_out.done /\ ntotal(engine) = 0)
    => /\ search_out.results = <<>>
       /\ ~search_out.raised
       /\ search_out.embed_calls = 0

\* C11 witness: a search with a query and the default k has returned on an
\* engine whose index build failed, so that the index holds no vector
\* although chunks were handed to it.
C11_Witness ==
    /\ search_out.done
    /\ ntotal(engine) = 0
    /\ input.chunks # <<>>
    /\ input.k = DefaultK

\* the ids of the chunks of a list, in list order
IdsOf(chunks) == [i \in DOMAIN chunks |-> chunks[i].id]

\* C12: for hits with valid ids and any window >= 0, get_context_window
\* returns the chunks whose ids are exactly the ids within window of some
\* hit, clamped to 0..n-1, in strictly ascending id order without
\* duplicates (so every hit id is among them), each chunk being the stored
\* one, with is_context true exactly for the ids that are not hit ids.
C12_ContextWindowIsClampedUnion ==
    call.fn = "get_context_window"
    => LET n == Len(engine.chunks)
           hit_ids == {call.hits[i].id : i \in DOMAIN call.hits}
           ids == IdsOf(call.ret)
       IN  /\ {ids[i] : i \in DOMAIN ids}
                 = {j \in 0..(n - 1) :
                       \E h \in hit_ids : Abs(j - h) <= call.window_size}
           /\ \A i, j \in DOMAIN ids : i < j => ids[i] < ids[j]
           /\ hit_ids \subseteq {ids[i] : i \in DOMAIN ids}
           /\ \A i \in DOMAIN call.ret :
                 /\ call.ret[i].text = engine.chunks[ids[i] + 1].text
                 /\ call.ret[i].is_context = (ids[i] \notin hit_ids)

\* C12 witness: two hits given out of id order, the last chunk first, with
\* window 1 on three chunks: the window of the last chunk is clamped at
\* the upper end and all three chunks are returned.
C12_Witness ==
    /\ call.fn = "get_context_window"
    /\ Len(engine.chunks) = 3
    /\ IdsOf(call.hits) = <<2, 0>>
    /\ call.window_size = 1
    /\ IdsOf(call.ret) = <<0, 1, 2>>
    /\ call.ret[2].is_context /\ ~call.ret[3].is_context

\* C13: every two consecutive chunks of chunk_text leave no character of
\* the text uncovered between them (the next start_pos is at most the
\* end_pos before it) and overlap by at most Overlap characters.
C13_ChunksCoverContiguously ==
    call.fn = "chunk_text"
    => \A i \in 1..(Len(call.ret) - 1) :
          /\ call.ret[i + 1].start_pos <= call.ret[i].end_pos
          /\ call.ret[i].end_pos - call.ret[i + 1].start_pos <= Overlap

\* C14: for a text of 1200 characters without sentence terminator,
\* chunk_text emits exactly 3 chunks, with start_pos 0, 450, 900 (advancing
\* by ChunkSize - Overlap) and lengths 500, 500, 300.
C14_RawWindowsAdvanceByLMinusO ==
    ( /\ call.fn = "chunk_text"
      /\ input.text.len = 1200
      /\ input.text.marks = <<>> )
    => /\ Len(call.ret) = 3
       /\ [i \in 1..3 |-> call.ret[i].start_pos]
             = <<0, ChunkSize - Overlap, 2 * (ChunkSize - Overlap)>>
       /\ [i \in 1..3 |-> call.ret[i].length] = <<500, 500, 300>>

\* C15: every chunk emitted by chunk_text has a non-empty text whose
\* length is between 1 and ChunkSize, and its covered range
\* end_pos - start_pos is at most ChunkSize.
C15_ChunkLengthWithinBounds ==
    call.fn = "chunk_text"
    => \A i \in DOMAIN call.ret :
          /\ call.ret[i].text[1] < call.ret[i].text[2]
          /\ call.ret[i].length >= 1
          /\ call.ret[i].length <= ChunkSize
          /\ call.ret[i].length = call.ret[i].text[2] - call.ret[i].text[1]
          /\ call.ret[i].end_pos - call.ret[i].start_pos <= ChunkSize
          /\ call.ret[i].id = i - 1

\* C15 witness: a text of 501 characters that ends in a blank: one chunk of
\* exactly ChunkSize characters is emitted and the window that holds only
\* the blank is not.
C15_Witness ==
    /\ call.fn = "chunk_text"
    /\ input.text.len = ChunkSize + 1
    /\ CharAt(input.text, ChunkSize) = Blank
    /\ Len(call.ret) = 1
    /\ call.ret[1].length = ChunkSize

C17_VectorsMatchChunks ==
    \A id \in DOMAIN documents :
        /\ id \in DOMAIN search_engines
        /\ ntotal(search_engines[id]) = Len(search_engines[id].chunks)
        /\ Len(search_engines[id].chunks) = Len(documents[id].chunks)
        /\ search_engines[id].chunks = documents[id].chunks
        /\ \A i \in DOMAIN documents[id].chunks :
              /\ documents[id].chunks[i].id = i - 1
              /\ search_engines[id].vectors[i]
                    = ModelEncode(documents[id].chunks[i].text)

\* C17 witness: two documents are registered, one of them by an upload
\* that failed in save_index, and one holds two chunks whose vectors
\* differ.
C17_Witness ==
    /\ Cardinality(DOMAIN documents) = 2
    /\ result.op = "upload" /\ result.error = "save_error"
    /\ \E id \in DOMAIN documents :
          /\ Len(documents[id].chunks) = 2
          /\ search_engines[id].vectors[1] # search_engines[id].vectors[2]

\* C18: whatever the number of retrieved chunks (max_context_chunks may
\* exceed 5), the prompt sent to the generator holds at most 5 chunks: the
\* first min(5, n) retrieved chunks in rank order, labelled Context 1, 2, ..
C18_PromptHoldsTopFive ==
    call.fn = "generate_answer"
    => LET n == Len(input.context_chunks)
           contexts == call.prompt.contexts
       IN  /\ Len(contexts) <= 5
           /\ Len(contexts) = Min(5, n)
           /\ \A i \in DOMAIN contexts :
                 /\ contexts[i].label = i
                 /\ contexts[i].text = input.context_chunks[i].text
                 /\ input.context_chunks[i].rank = i

\* C18 witness: six chunks were retrieved, their ids against rank order,
\* and the prompt holds five.
C18_Witness ==
    /\ call.fn = "generate_answer"
    /\ Len(input.context_chunks) = 6
    /\ input.context_chunks[1].id > input.context_chunks[2].id
    /\ Len(call.prompt.contexts) = 5

\* C19: the sources of an answer are the first min(3, n) retrieved chunks
\* in rank order, each with its chunk id and similarity score, and every
\* source preview is at most 100 characters long.
C19_SourcesAreTopThreeWithShortPreviews ==
    call.fn = "generate_answer"
    => LET n == Len(input.context_chunks)
       IN  /\ Len(call.sources) = Min(3, n)
           /\ \A i \in DOMAIN call.sources :
                 /\ call.sources[i].chunk_id = input.context_chunks[i].id
                 /\ call.sources[i].similarity_score
                       = input.context_chunks[i].similarity_score
                 /\ call.sources[i].text_preview.tag
                       = input.context_chunks[i].text.tag
                 /\ StrLen(call.sources[i].text_preview) <= 100

\* C19 (amended): the sources of an answer are the first min(3, n)
\* retrieved chunks in rank order, each with its chunk id and similarity
\* score; the preview of a chunk text of at most 100 characters is the
\* text, and the preview of a longer one is its first 100 characters
\* followed by '...', 103 characters in all.
C19_SourcesAreTopThreeWithEllipsis ==
    call.fn = "generate_answer"
    => LET n == Len(input.context_chunks)
       IN  /\ Len(call.sources) = Min(3, n)
           /\ \A i \in DOMAIN call.sources :
                 LET text == input.context_chunks[i].text
                     preview == call.sources[i].text_preview
                 IN  /\ call.sources[i].chunk_id = input.context_chunks[i].id
                     /\ call.sources[i].similarity_score
                           = input.context_chunks[i].similarity_score
                     /\ preview.tag = text.tag
                     /\ text.len <= 100 => preview = text
                     /\ text.len > 100
                           => /\ preview.len = 100 /\ preview.dots = 3
                              /\ StrLen(preview) = 103

\* C19 witness: four chunks were retrieved, their ids against rank order;
\* the answer has three sources, one with the preview of a text of 101
\* characters and one with a text of exactly 100 characters.
C19_Witness ==
    /\ call.fn = "generate_answer"
    /\ Len(input.context_chunks) = 4
    /\ input.context_chunks[1].id > input.context_chunks[2].id
    /\ Len(call.sources) = 3
    /\ input.context_chunks[1].text.len = 101
    /\ StrLen(call.sources[1].text_preview) = 103
    /\ input.context_chunks[2].text.len = 100
    /\ StrLen(call.sources[2].text_preview) = 100

\* the outcomes of a collaborator that an operation's result reports
CollaboratorFailures ==
    {"unreadable", "extract_error", "embed_error", "save_error", "generator"}

\* C20: every call of upload_document, ask_question, search_documents,
\* get_document_summary and select_document returns a result with a
\* success/failure indication, whatever its collaborators did (extraction,
\* embedding, index persistence, generator, unknown document id): no
\* exception escapes, a reported error comes with success = false, and an
\* unknown document id is never selected or summarised.
C20_OperationsAlwaysReturn ==
    result.op \in {"upload", "ask", "search", "summary", "select"}
    => /\ ~result.escaped
       /\ result.success \in BOOLEAN
       /\ result.error # "" => (result.error \in CollaboratorFailures
                                 /\ ~result.success)
       /\ (result.op \in {"upload", "select", "summary"} /\ result.success)
             => result.document_id \in get_document_list
       /\ (result.op \in {"select", "summary"}
               /\ result.request[1] # NoDocument
               /\ result.request[1] \notin get_document_list)
             => ~result.success

\* C20 witness: an upload whose index persistence failed has returned a
\* failure result, in a session that has answered a question.
C20_Witness ==
    /\ result.op = "upload"
    /\ result.error = "save_error"
    /\ ~result.success
    /\ conversation_history # <<>>

\* C21: the session starts with no document selected; in every reachable
\* state current_document is None or the id of a registered document; and
\* once a document is selected no operation (failed upload, failed select,
\* ask, search, summary, history reset) makes current_document None again.
C21_SelectionIsNeverLost ==
    /\ current_document = NoDocument
    /\ [](current_document = NoDocument
            \/ current_document \in get_document_list)
    /\ [][current_document # NoDocument => current_document' # NoDocument]_vars

\* C21 witness: with a document selected and a question answered, an
\* upload has failed before reaching the store, and the document is still
\* selected.
C21_Witness ==
    /\ result.op = "upload" /\ ~result.success
    /\ result.error \in {"unreadable", "extract_error"}
    /\ result.before.current_document # NoDocument
    /\ current_document = result.before.current_document
    /\ conversation_history # <<>>

\* C22: when two workers call upload_document for the same unregistered
\* file, they are never both in the build-and-registration steps for its
\* id, at most one of them builds an index, and at most one returns
\* is_new = true.
C22_BuildIsExclusivePerDocument ==
    LET \* worker w is inside add_document: it builds and registers
        InBuildAndRegister(w) ==
            workers[w].pc \in {"build", "store_document", "store_engine",
                                 "save"}
    IN  workers # NoWorkers
        => \A v, w \in Workers :
              v # w => /\ ~(InBuildAndRegister(v) /\ InBuildAndRegister(w))
                       /\ ~(workers[v].built /\ workers[w].built)
                       /\ ~(workers[v].result.is_new
                              /\ workers[w].result.is_new)

\* C23: for every text and every configuration with chunk_size > 0 and
\* overlap >= 0 (overlap >= chunk_size included), each iteration of the
\* loop of chunk_text leaves start strictly greater than it found it,
\* snapped to a sentence end or not; the loop is left exactly when
\* start >= len(text), after at most len(text) iterations; and the call
\* returns.
C23_ChunkTextTerminates ==
    /\ [][ (call.fn = "chunk_text_loop" /\ call'.fn = "chunk_text_loop")
           => /\ call'.start >= call.start
              /\ call'.iterations > call.iterations
                    => call'.start > call.start ]_vars
    /\ [](call.fn = "chunk_text_loop"
            => /\ call.iterations <= input.text.len
               /\ call.pc = "return" => call.start >= input.text.len)
    /\ <>(call.fn = "chunk_text_loop" /\ call.pc = "return")

\* C23 witness: with overlap greater than chunk_size, a call has returned
\* after two iterations, the first of which ended its window at a sentence
\* end before the full chunk size.
C23_Witness ==
    /\ call.fn = "chunk_text_loop" /\ call.pc = "return"
    /\ input.overlap > input.chunk_size
    /\ call.iterations = 2
    /\ \E i \in DOMAIN call.chunks :
          /\ call.chunks[i].end_pos < input.text.len
          /\ call.chunks[i].end_pos - call.chunks[i].start_pos
                < input.chunk_size

\* C24: the chunks of chunk_text have ids 0, 1, ..., n-1 without gap or
\* repeat, also when whitespace-only windows were skipped: the chunk at
\* list position i (from 0) has id i, and start_pos grows strictly with
\* the id.
C24_ChunkIdsAreDense ==
    call.fn = "chunk_text_loop"
    => /\ \A i \in DOMAIN call.chunks : call.chunks[i].id = i - 1
       /\ call.chunk_id = Len(call.chunks)
       /\ \A i, j \in DOMAIN call.chunks :
             i < j => call.chunks[i].start_pos < call.chunks[j].start_pos

\* C24 witness: a call has returned two chunks after three iterations, the
\* window between the two chunks holding only a blank.
C24_Witness ==
    /\ call.fn = "chunk_text_loop" /\ call.pc = "return"
    /\ call.iterations = 3
    /\ Len(call.chunks) = 2
    /\ call.chunks[1].end_pos < call.chunks[2].start_pos
    /\ CharAt(input.text, call.chunks[1].end_pos) = Blank
    /\ call.chunks[2].id = 1

\* C25: every chunk record of chunk_text has start_pos < end_pos and
\* length = end_pos - start_pos, also when blanks were trimmed from the
\* front or the back of its slice.
C25_LengthIsEndMinusStart ==
    call.fn = "chunk_text"
    => \A i \in DOMAIN call.ret :
          /\ call.ret[i].start_pos < call.ret[i].end_pos
          /\ call.ret[i].length = call.ret[i].end_pos - call.ret[i].start_pos

\* C26: the ranks of the results of a search are exactly 1, 2, ..., m in
\* returned order, m the number of results, although the rank is the
\* position in the raw top-k list, from which entries below the threshold
\* and padding entries are filtered out.
C26_RanksAreOneToM ==
    search_out.done
    => \A j \in DOMAIN search_out.results : search_out.results[j].rank = j

\* C26 witness: a search with k = 3 on three stored chunks has returned
\* two results, the third entry of the raw list being below the threshold.
C26_Witness ==
    /\ search_out.done /\ ~search_out.raised
    /\ ntotal(engine) = 3
    /\ input.k = 3
    /\ Len(search_out.results) = 2
    /\ search_out.results[2].rank = 2
    /\ Cardinality(Qualifying) = 2

\* C27: after build_index was called twice on an engine with the same
\* chunks, the index holds as many vectors as there are chunks, and every
\* search returns what it returns after a single build.
C27_RebuildIsIdempotent ==
    (call.fn = "build_index" /\ engine # call.built_once)
    => /\ ntotal(engine) = Len(input.chunks)
       /\ \A query \in Texts, k \in Ks, score_threshold \in Thresholds :
             SearchResults(engine, query, k, score_threshold)
               = SearchResults(call.built_once, query, k, score_threshold)

\* C28: whenever upload_document returns success = false (the file could
\* not be read, extraction failed, the index build failed or the index
\* could not be saved), current_document and conversation_history are what
\* they were before the call.
C28_FailedUploadKeepsSession ==
    [][ (result'.op = "upload" /\ ~result'.success)
        => ( /\ current_document' = current_document
             /\ conversation_history' = conversation_history ) ]_vars

\* C28 witness: an upload has failed in the index build while a document
\* was selected and the history held two entries; both are still there.
C28_Witness ==
    /\ result.op = "upload" /\ ~result.success
    /\ result.error = "embed_error"
    /\ result.before.current_document # NoDocument
    /\ current_document = result.before.current_document
    /\ result.before.history_len = 2
    /\ Len(conversation_history) = 2

\* C29: in every reachable state, every entry of conversation_history has
\* the document_id of the current document, whatever the sequence of
\* uploads, selects, history resets and asks (with or without an explicit
\* document_id).
C29_HistoryBelongsToCurrentDocument ==
    \A i \in DOMAIN conversation_history :
        conversation_history[i].document_id = current_document

\* C30: for every limit >= 0, get_conversation_history(limit) returns the
\* most recent min(limit, len(history)) entries in chronological order (at
\* most limit entries, none when limit = 0).
C30_HistoryReturnsLastLimit ==
    call.fn = "get_conversation_history"
    => LET n == Len(conversation_history)
           m == Min(call.limit, n)
       IN  /\ call.ret = SubSeq(conversation_history, n - m + 1, n)
           /\ Len(call.ret) <= call.limit

====
